---- MODULE Spec2Model ----
(***************************************************************************)
(* Permission resolution of a guild: Guild::member_permissions and         *)
(* Guild::permissions_in (src/src/guild/mod.rs).                           *)
(*                                                                         *)
(* A Permissions value is a bitflags mask; it is modelled as the set of    *)
(* the flags whose bit is set, so `|` is \cup, `&` is \cap and `& !m` is   *)
(* set difference.  The guild is the snapshot the two functions read; the  *)
(* two functions are the actions.                                          *)
(***************************************************************************)
EXTENDS Integers, Sequences, FiniteSets, TLC

VARIABLES
    id,          \* Guild::id
    owner_id,    \* Guild::owner_id
    roles,       \* Guild::roles     : RoleId    -> [permissions]
    members,     \* Guild::members   : UserId    -> [roles]
    channels,    \* Guild::channels  : ChannelId -> [kind, permission_overwrites]
    call,        \* the last call made: [fn, channel_id, user_id]
    trace,       \* the locals of that call at its program points
    ret,         \* the Permissions value that call returned
    this,        \* the GuildChannel a method is called on: [id, kind]
    rest,        \* the REST requests the last call issued
    outcome,     \* the Result the last call of a REST method returned
    threads,     \* per thread: the call it runs and where it stands in it
    frames       \* per stack frame: the `permissions` local of a call

guild == <<id, owner_id, roles, members, channels>>
resolver == <<call, trace, ret>>
client == <<this, rest, outcome>>
workers == <<threads, frames>>
vars == <<id, owner_id, roles, members, channels, call, trace, ret,
          this, rest, outcome, threads, frames>>

----------------------------------------------------------------------------
(* The Permissions flags.                                                  *)

ADMINISTRATOR == "ADMINISTRATOR"
ATTACH_FILES == "ATTACH_FILES"
BAN_MEMBERS == "BAN_MEMBERS"
CHANGE_NICKNAME == "CHANGE_NICKNAME"
CONNECT == "CONNECT"
CREATE_INVITE == "CREATE_INVITE"
DEAFEN_MEMBERS == "DEAFEN_MEMBERS"
EMBED_LINKS == "EMBED_LINKS"
KICK_MEMBERS == "KICK_MEMBERS"
MANAGE_CHANNELS == "MANAGE_CHANNELS"
MANAGE_GUILD == "MANAGE_GUILD"
MANAGE_MESSAGES == "MANAGE_MESSAGES"
MANAGE_NICKNAMES == "MANAGE_NICKNAMES"
MENTION_EVERYONE == "MENTION_EVERYONE"
MOVE_MEMBERS == "MOVE_MEMBERS"
MUTE_MEMBERS == "MUTE_MEMBERS"
READ_MESSAGES == "READ_MESSAGES"
SEND_MESSAGES == "SEND_MESSAGES"
SEND_TTS_MESSAGES == "SEND_TTS_MESSAGES"
SPEAK == "SPEAK"
USE_VAD == "USE_VAD"

\* Permissions::all(): every defined flag.
all ==
    { ADMINISTRATOR, ATTACH_FILES, BAN_MEMBERS, CHANGE_NICKNAME, CONNECT,
      CREATE_INVITE, DEAFEN_MEMBERS, EMBED_LINKS, KICK_MEMBERS,
      MANAGE_CHANNELS, MANAGE_GUILD, MANAGE_MESSAGES, MANAGE_NICKNAMES,
      MENTION_EVERYONE, MOVE_MEMBERS, MUTE_MEMBERS, READ_MESSAGES,
      SEND_MESSAGES, SEND_TTS_MESSAGES, SPEAK, USE_VAD }

\* Permissions::empty(): the zero mask.
empty == {}

\* The voice permissions thrown out of a text channel.
VoiceFlags ==
    { CONNECT, SPEAK, MUTE_MEMBERS, DEAFEN_MEMBERS, MOVE_MEMBERS, USE_VAD }

\* The message-able permissions thrown out without SEND_MESSAGES.
MessageFlags ==
    { SEND_TTS_MESSAGES, MENTION_EVERYONE, EMBED_LINKS, ATTACH_FILES }

\* The permissions kept without READ_MESSAGES.
ReadlessFlags ==
    { KICK_MEMBERS, BAN_MEMBERS, ADMINISTRATOR, MANAGE_GUILD,
      CHANGE_NICKNAME, MANAGE_NICKNAMES }

\* ChannelType
Text == "Text"
Voice == "Voice"
Category == "Category"

\* PermissionOverwriteType::Role(id), PermissionOverwriteType::Member(id)
Role(r) == [type |-> "Role", id |-> r]
Member(u) == [type |-> "Member", id |-> u]

----------------------------------------------------------------------------
(* Guild::member_permissions                                               *)

\* is_owner without the owner check.
is_owner_never(user_id) == FALSE

\* `user_id == self.owner_id`
is_owner(user_id) == user_id = owner_id

\* `self.roles.get(&RoleId(self.id.0))` is Some
has_everyone == id \in DOMAIN roles

\* is_administrator that never sees the flag.
is_administrator_never(permissions) == FALSE

\* `role.permissions.contains(Permissions::ADMINISTRATOR)`
is_administrator(permissions) == ADMINISTRATOR \in permissions

\* member_permissions_roles without the return of all() for an administrator.
RECURSIVE member_permissions_roles_union(_, _, _)
member_permissions_roles_union(member_roles, i, permissions) ==
    IF i > Len(member_roles) THEN permissions
    ELSE member_permissions_roles_union(member_roles, i + 1,
             IF member_roles[i] \in DOMAIN roles
             THEN permissions \cup roles[member_roles[i]].permissions
             ELSE permissions)

\* member_permissions_roles with `permissions = role.permissions` for
\* `permissions |= role.permissions`.
RECURSIVE member_permissions_roles_last(_, _, _)
member_permissions_roles_last(member_roles, i, permissions) ==
    IF i > Len(member_roles) THEN permissions
    ELSE LET role == member_roles[i] IN
        IF role \in DOMAIN roles
        THEN IF is_administrator(roles[role].permissions)
             THEN all
             ELSE member_permissions_roles_last(member_roles, i + 1,
                      roles[role].permissions)
        ELSE member_permissions_roles_last(member_roles, i + 1, permissions)

\* `for role in &member.roles`, from the i-th role on
RECURSIVE member_permissions_roles(_, _, _)
member_permissions_roles(member_roles, i, permissions) ==
    IF i > Len(member_roles) THEN permissions
    ELSE LET role == member_roles[i] IN
        IF role \in DOMAIN roles
        THEN IF is_administrator(roles[role].permissions)
             THEN all
             ELSE member_permissions_roles(member_roles, i + 1,
                      permissions \cup roles[role].permissions)
        ELSE member_permissions_roles(member_roles, i + 1, permissions)

\* member_permissions that goes on from the empty mask when @everyone is
\* missing.
member_permissions_without_everyone(user_id) ==
    LET everyone == IF has_everyone THEN roles[id].permissions ELSE empty
    IN  IF is_owner(user_id) THEN all
        ELSE IF user_id \notin DOMAIN members THEN everyone
        ELSE member_permissions_roles(members[user_id].roles, 1, everyone)

\* member_permissions that gives a user who is no member nothing.
member_permissions_member_only(user_id) ==
    IF is_owner(user_id) THEN all
    ELSE IF ~has_everyone THEN empty
    ELSE IF user_id \notin DOMAIN members THEN empty
    ELSE member_permissions_roles(members[user_id].roles, 1,
             roles[id].permissions)

member_permissions(user_id) ==
    IF is_owner(user_id) THEN all
    ELSE IF ~has_everyone THEN empty
    ELSE IF user_id \notin DOMAIN members THEN roles[id].permissions
    ELSE member_permissions_roles(members[user_id].roles, 1,
             roles[id].permissions)

----------------------------------------------------------------------------
(* Guild::permissions_in                                                   *)

\* role_union with `permissions = role.permissions` for
\* `permissions |= role.permissions`.
RECURSIVE role_union_last(_, _, _)
role_union_last(member_roles, i, permissions) ==
    IF i > Len(member_roles) THEN permissions
    ELSE LET role == member_roles[i] IN
        IF role \in DOMAIN roles
        THEN role_union_last(member_roles, i + 1, roles[role].permissions)
        ELSE role_union_last(member_roles, i + 1, permissions)

\* `for &role in &member.roles { permissions |= role.permissions }`
RECURSIVE role_union(_, _, _)
role_union(member_roles, i, permissions) ==
    IF i > Len(member_roles) THEN permissions
    ELSE LET role == member_roles[i] IN
        IF role \in DOMAIN roles
        THEN role_union(member_roles, i + 1,
                 permissions \cup roles[role].permissions)
        ELSE role_union(member_roles, i + 1, permissions)

\* clear_voice that does not look at the kind of the channel.
clear_voice_any_kind(channel, permissions) ==
    permissions \ VoiceFlags

\* `if channel.kind == ChannelType::Text { permissions &= !(voice) }`
clear_voice(channel, permissions) ==
    IF channel.kind = Text THEN permissions \ VoiceFlags ELSE permissions

\* apply_overwrite that allows first and denies last.
apply_overwrite_deny_last(permissions, overwrite) ==
    (permissions \cup overwrite.allow) \ overwrite.deny

\* `permissions = (permissions & !overwrite.deny) | overwrite.allow`
apply_overwrite(permissions, overwrite) ==
    (permissions \ overwrite.deny) \cup overwrite.allow

\* role_overwrite_applies that skips no role overwrite.
role_overwrite_applies_any(overwrite, member_roles) ==
    overwrite.kind.type = "Role"

\* the role overwrites that are not skipped by `continue`
role_overwrite_applies(overwrite, member_roles) ==
    /\ overwrite.kind.type = "Role"
    /\ ~ ( /\ overwrite.kind.id # id
           /\ \A i \in 1..Len(member_roles) :
                  member_roles[i] # overwrite.kind.id )

\* role_pass that applies the overwrites from the last to the first.
RECURSIVE role_pass_backwards(_, _, _, _)
role_pass_backwards(overwrites, i, member_roles, permissions) ==
    IF i > Len(overwrites) THEN permissions
    ELSE LET later == role_pass_backwards(overwrites, i + 1, member_roles,
                          permissions)
         IN  IF role_overwrite_applies(overwrites[i], member_roles)
             THEN apply_overwrite(later, overwrites[i])
             ELSE later

\* the first loop over `channel.permission_overwrites` (Roles)
RECURSIVE role_pass(_, _, _, _)
role_pass(overwrites, i, member_roles, permissions) ==
    IF i > Len(overwrites) THEN permissions
    ELSE role_pass(overwrites, i + 1, member_roles,
             IF role_overwrite_applies(overwrites[i], member_roles)
             THEN apply_overwrite(permissions, overwrites[i])
             ELSE permissions)

\* `PermissionOverwriteType::Member(user_id) != overwrite.kind` is false
member_overwrite_applies(overwrite, user_id) ==
    overwrite.kind = Member(user_id)

\* the second loop over `channel.permission_overwrites` (Member)
RECURSIVE member_pass(_, _, _, _)
member_pass(overwrites, i, user_id, permissions) ==
    IF i > Len(overwrites) THEN permissions
    ELSE member_pass(overwrites, i + 1, user_id,
             IF member_overwrite_applies(overwrites[i], user_id)
             THEN apply_overwrite(permissions, overwrites[i])
             ELSE permissions)

\* default_channel that forces nothing.
default_channel_skipped(channel_id, permissions) == permissions

\* `if channel_id.0 == self.id.0 { permissions |= READ_MESSAGES }`
default_channel(channel_id, permissions) ==
    IF channel_id = id THEN permissions \cup {READ_MESSAGES} ELSE permissions

\* without_send that throws nothing out.
without_send_skipped(permissions) == permissions

\* `if !permissions.contains(SEND_MESSAGES) { permissions &= !(...) }`
without_send(permissions) ==
    IF SEND_MESSAGES \notin permissions
    THEN permissions \ MessageFlags ELSE permissions

\* without_read that throws nothing out.
without_read_skipped(permissions) == permissions

\* `if !permissions.contains(READ_MESSAGES) { permissions &= ... }`
without_read(permissions) ==
    IF READ_MESSAGES \notin permissions
    THEN permissions \cap ReadlessFlags ELSE permissions

\* overwrite_passes with the two loops swapped: the member first.
overwrite_passes_member_first(overwrites, member_roles, user_id, permissions) ==
    role_pass(overwrites, 1, member_roles,
        member_pass(overwrites, 1, user_id, permissions))

\* Both loops over `channel.permission_overwrites`: the roles first, then
\* the member itself.
overwrite_passes(overwrites, member_roles, user_id, permissions) ==
    member_pass(overwrites, 1, user_id,
        role_pass(overwrites, 1, member_roles, permissions))

\* The locals of a call that returned early at `path`.
Early(path, result) ==
    [ path |-> path, base |-> result, voiced |-> result,
      role_passed |-> result, member_passed |-> result,
      defaulted |-> result, sendless |-> result, result |-> result ]

\* channel_passes that gives nothing in a channel the guild does not hold.
channel_passes_or_empty(channel_id, member_roles, user_id, permissions) ==
    IF channel_id \in DOMAIN channels
    THEN overwrite_passes(channels[channel_id].permission_overwrites,
             member_roles, user_id,
             clear_voice(channels[channel_id], permissions))
    ELSE empty

\* `if let Some(channel) = self.channels.get(&channel_id) { .. } else { warn }`
channel_passes(channel_id, member_roles, user_id, permissions) ==
    IF channel_id \in DOMAIN channels
    THEN overwrite_passes(channels[channel_id].permission_overwrites,
             member_roles, user_id,
             clear_voice(channels[channel_id], permissions))
    ELSE permissions

\* The body of permissions_in from the loop over `member.roles` on, for a
\* member with the role list `member_roles`; every field is the value of
\* `permissions` at one program point.
permissions_in_member_trace(channel_id, user_id, member_roles) ==
    LET base == role_union(member_roles, 1, roles[id].permissions)
    IN  IF is_administrator(base) THEN [Early("administrator", all)
                                           EXCEPT !.base = base]
        ELSE
        LET found == channel_id \in DOMAIN channels
            voiced == IF found THEN clear_voice(channels[channel_id], base)
                      ELSE base
            role_passed ==
                IF found
                THEN role_pass(channels[channel_id].permission_overwrites, 1,
                         member_roles, voiced)
                ELSE voiced
            member_passed ==
                channel_passes(channel_id, member_roles, user_id, base)
            defaulted == default_channel(channel_id, member_passed)
            sendless == without_send(defaulted)
            result == without_read(sendless)
        IN  [ path |-> IF found THEN "channel" ELSE "no_channel",
              base |-> base, voiced |-> voiced,
              role_passed |-> role_passed, member_passed |-> member_passed,
              defaulted |-> defaulted, sendless |-> sendless,
              result |-> result ]

\* The body of permissions_in.
permissions_in_trace(channel_id, user_id) ==
    IF is_owner(user_id) THEN Early("owner", all)
    ELSE IF ~has_everyone THEN Early("no_everyone", empty)
    ELSE IF user_id \notin DOMAIN members
         THEN Early("no_member", roles[id].permissions)
    ELSE permissions_in_member_trace(channel_id, user_id,
             members[user_id].roles)

permissions_in(channel_id, user_id) ==
    permissions_in_trace(channel_id, user_id).result

----------------------------------------------------------------------------
(* The guild snapshots and the calls that are checked.                     *)

MaxMemberRoles == 2   \* longest `Member::roles`
MaxOverwrites == 2    \* longest `GuildChannel::permission_overwrites`

GuildIds == {1}
UserIds == {10, 11}
RoleIds == {1, 2}
ChannelIds == {1, 2}

SeqsUpTo(S, n) == UNION { [1..k -> S] : k \in 0..n }

\* All maps from a subset of D holding at most `n` keys to V.
MapsUpTo(D, V, n) ==
    UNION { [K -> V] : K \in { K \in SUBSET D : Cardinality(K) <= n } }

\* The masks the roles of a snapshot carry.
RoleMasks ==
    { {READ_MESSAGES},
      {READ_MESSAGES, SEND_MESSAGES},
      {ADMINISTRATOR},
      {EMBED_LINKS, CONNECT, KICK_MEMBERS} }

OverwriteKinds == { Role(1), Role(2), Member(10), Member(11) }

Overwrite(kind, allow, deny) ==
    [kind |-> kind, allow |-> allow, deny |-> deny]

\* The (allow, deny) pairs of the overwrites of a snapshot.
OverwriteMasks ==
    { <<{SEND_MESSAGES}, {}>>,
      <<{}, {READ_MESSAGES, SEND_MESSAGES}>>,
      <<{EMBED_LINKS, CONNECT}, {}>>,
      <<{ADMINISTRATOR}, {}>>,
      <<{SEND_MESSAGES}, {SEND_MESSAGES}>> }

\* The overwrites of a snapshot: every pair of masks for the default role,
\* role 2 and member 11, and one overwrite for the other member.
Overwrites ==
    { Overwrite(k, m[1], m[2]) :
        k \in OverwriteKinds \ {Member(10)}, m \in OverwriteMasks }
    \cup { Overwrite(Member(10), {ADMINISTRATOR}, {}) }

\* A few overwrites, for the snapshots that vary the roles instead.
FewOverwrites ==
    { Overwrite(Member(11), {}, {READ_MESSAGES, SEND_MESSAGES}),
      Overwrite(Role(2), {EMBED_LINKS, CONNECT}, {}) }

Roles(masks) == { [permissions |-> m] : m \in masks }
Members(lists) == { [roles |-> l] : l \in lists }
Channels(kinds, lists) ==
    { [kind |-> k, permission_overwrites |-> o] : k \in kinds, o \in lists }

\* Snapshots that vary the owner, the roles and the member's role list.
InitRoles ==
    /\ id \in GuildIds
    /\ owner_id \in UserIds
    /\ roles \in MapsUpTo(RoleIds, Roles(RoleMasks), 2)
    /\ members \in MapsUpTo({11},
                      Members(SeqsUpTo(RoleIds, MaxMemberRoles)), 1)
    /\ channels \in MapsUpTo(ChannelIds,
                       Channels({Text, Voice, Category},
                           SeqsUpTo(FewOverwrites, 1)), 1)

\* Snapshots that vary the overwrite list of the channel.
InitOverwrites ==
    /\ id \in GuildIds
    /\ owner_id = 10
    /\ roles \in { r \in MapsUpTo(RoleIds, Roles(RoleMasks), 2) :
                      /\ 1 \in DOMAIN r
                      /\ r[1].permissions = {READ_MESSAGES, SEND_MESSAGES}
                      /\ 2 \in DOMAIN r =>
                             r[2].permissions
                                 = {EMBED_LINKS, CONNECT, KICK_MEMBERS} }
    /\ members \in [{11} -> Members({ <<>>, <<2>> })]
    /\ channels \in { c \in MapsUpTo(ChannelIds,
                               Channels({Text, Voice},
                                   SeqsUpTo(Overwrites, MaxOverwrites)), 1) :
                         c # << >> }

NoCall == [fn |-> "none", channel_id |-> 0, user_id |-> 0]

\* Result::Ok(value), Result::Err(error)
Ok(value) == [ok |-> TRUE, value |-> value]
Err(error) == [ok |-> FALSE, error |-> error]

\* No method of the REST layer has been called.
InitClient ==
    /\ this = [id |-> 0, kind |-> Text]
    /\ rest = <<>>
    /\ outcome = Ok("none")

MaxThreads == 2
ThreadIds == 1..MaxThreads

\* The locals of a thread that has made no call.
Idle ==
    [pc |-> "idle", fn |-> "none", channel_id |-> 0, user_id |-> 0,
     result |-> empty, overlapped |-> FALSE]

\* No thread has made a call.
InitWorkers ==
    /\ threads = [t \in ThreadIds |-> Idle]
    /\ frames = [t \in ThreadIds |-> empty]

Init ==
    /\ InitRoles \/ InitOverwrites
    /\ call = NoCall
    /\ trace = Early("none", empty)
    /\ ret = empty
    /\ InitClient
    /\ InitWorkers

\* guild.member_permissions(user_id)
MemberPermissions(user_id) ==
    /\ call' = [fn |-> "member_permissions", channel_id |-> 0,
                user_id |-> user_id]
    /\ ret' = member_permissions(user_id)
    /\ trace' = Early("none", empty)
    /\ UNCHANGED guild
    /\ UNCHANGED <<client, workers>>

\* PermissionsIn that takes the overwrites out of the channel it reads.
PermissionsIn_draining(channel_id, user_id) ==
    /\ call' = [fn |-> "permissions_in", channel_id |-> channel_id,
                user_id |-> user_id]
    /\ trace' = permissions_in_trace(channel_id, user_id)
    /\ ret' = permissions_in(channel_id, user_id)
    /\ channels' = [c \in DOMAIN channels |->
                       IF c = channel_id
                       THEN [channels[c] EXCEPT !.permission_overwrites = <<>>]
                       ELSE channels[c]]
    /\ UNCHANGED <<id, owner_id, roles, members>>
    /\ UNCHANGED <<client, workers>>

\* guild.permissions_in(channel_id, user_id)
PermissionsIn(channel_id, user_id) ==
    /\ call' = [fn |-> "permissions_in", channel_id |-> channel_id,
                user_id |-> user_id]
    /\ trace' = permissions_in_trace(channel_id, user_id)
    /\ ret' = permissions_in(channel_id, user_id)
    /\ UNCHANGED guild
    /\ UNCHANGED <<client, workers>>

Next ==
    \/ \E u \in UserIds : MemberPermissions(u)
    \/ \E c \in ChannelIds, u \in UserIds : PermissionsIn(c, u)

Spec == Init /\ [][Next]_vars

----------------------------------------------------------------------------
(* The methods of Reaction and GuildChannel that check a permission of the *)
(* current user before they issue a REST request (src/channel/reaction.rs, *)
(* src/channel/guild_channel.rs).  What utils::user_has_perms and the REST *)
(* layer answer is an input of the call.                                   *)

\* Option::None, Option::Some(value)
None == [some |-> FALSE]
Some(value) == [some |-> TRUE, value |-> value]

\* ClientError::InvalidPermissions(req) and the other errors
InvalidPermissions(req) == [kind |-> "InvalidPermissions", permissions |-> req]
OtherError(kind) == [kind |-> kind, permissions |-> {}]

\* What utils::user_has_perms returns.
Lookups == { Ok(TRUE), Ok(FALSE), Err(OtherError("ItemMissing")) }

\* What a request of the REST layer returns.
Responses == { Ok("response"), Err(OtherError("Http")) }

MessageIds == {7}
Reactions ==
    [user_id : UserIds, channel_id : ChannelIds, message_id : MessageIds]

DefaultLimit == 50    \* `limit.unwrap_or(50)`
MaxU8 == 255          \* `limit: Option<u8>`
Limits == {None} \cup { Some(n) : n \in {0, 1, DefaultLimit, 100, 101, MaxU8} }

\* The GuildChannel values a method is called on or the REST layer returns.
GuildChannels == [id : ChannelIds, kind : {Text, Voice}]

\* reaction_delete_user that always names the user of the reaction.
reaction_delete_user_named(reaction, cache, current_user) ==
    Some(reaction.user_id)

\* `let user = if self.user_id == CACHE.read().unwrap().user.id { None }
\*  else { Some(self.user_id.0) }`; without the cache `Some(self.user_id.0)`
reaction_delete_user(reaction, cache, current_user) ==
    IF cache
    THEN IF reaction.user_id = current_user THEN None
         ELSE Some(reaction.user_id)
    ELSE Some(reaction.user_id)

\* `utils::user_has_perms(self.channel_id, req).unwrap_or(true)`
has_perms_or_true(lookup) ==
    IF lookup.ok THEN lookup.value ELSE TRUE

\* Reaction::delete
ReactionDelete(reaction, cache, current_user, lookup, response) ==
    LET user == reaction_delete_user(reaction, cache, current_user)
        denied == cache /\ user.some /\ ~has_perms_or_true(lookup)
    IN  /\ call' = [fn |-> "Reaction::delete", channel_id |-> reaction.channel_id,
                    user_id |-> reaction.user_id, cache |-> cache,
                    current_user |-> current_user, lookup |-> lookup,
                    limit |-> None]
        /\ rest' = IF denied THEN <<>>
                   ELSE << [fn |-> "delete_reaction",
                            channel_id |-> reaction.channel_id,
                            message_id |-> reaction.message_id,
                            user_id |-> user, limit |-> 0] >>
        /\ outcome' = IF denied
                      THEN Err(InvalidPermissions({MANAGE_MESSAGES}))
                      ELSE response
        /\ UNCHANGED <<guild, trace, ret, this, workers>>

\* `limit.unwrap_or(50)`
reaction_users_limit(limit) ==
    IF limit.some THEN limit.value ELSE DefaultLimit

\* Reaction::users
ReactionUsers(reaction, limit, after, response) ==
    /\ call' = [fn |-> "Reaction::users", channel_id |-> reaction.channel_id,
                user_id |-> reaction.user_id, cache |-> FALSE,
                current_user |-> 0, lookup |-> Ok(TRUE), limit |-> limit]
    /\ rest' = << [fn |-> "get_reaction_users",
                   channel_id |-> reaction.channel_id,
                   message_id |-> reaction.message_id,
                   user_id |-> after,
                   limit |-> reaction_users_limit(limit)] >>
    /\ outcome' = response
    /\ UNCHANGED <<guild, trace, ret, this, workers>>

\* The permission each checked method of GuildChannel asks for.
required(fn) ==
    CASE fn = "GuildChannel::create_invite" -> {CREATE_INVITE}
      [] fn = "GuildChannel::delete" -> {MANAGE_CHANNELS}
      [] fn = "GuildChannel::edit" -> {MANAGE_CHANNELS}
      [] fn = "GuildChannel::send_message" -> {SEND_MESSAGES}

\* The REST function each checked method of GuildChannel ends in.
request_of(fn) ==
    CASE fn = "GuildChannel::create_invite" -> "create_invite"
      [] fn = "GuildChannel::delete" -> "delete_channel"
      [] fn = "GuildChannel::edit" -> "edit_channel"
      [] fn = "GuildChannel::send_message" -> "send_message"

\* checked that takes a failed lookup for a granted permission.
checked_or_true(cache, lookup, req) ==
    IF ~cache THEN Ok("checked")
    ELSE IF ~has_perms_or_true(lookup) THEN Err(InvalidPermissions(req))
    ELSE Ok("checked")

\* `if !utils::user_has_perms(self.id, req)? { return Err(..) }` under
\* `#[cfg(feature="cache")]`
checked(cache, lookup, req) ==
    IF ~cache THEN Ok("checked")
    ELSE IF ~lookup.ok THEN lookup
    ELSE IF ~lookup.value THEN Err(InvalidPermissions(req))
    ELSE Ok("checked")

\* delete and send_message end in `self.id.delete()` and
\* `self.id.send_message(f)`, which may return an error of their own
\* before any request; create_invite and edit call the REST layer themselves.
delegates(fn) ==
    fn \in {"GuildChannel::delete", "GuildChannel::send_message"}

\* GuildChannel::create_invite, delete, edit and send_message: the check,
\* then the request; edit puts the channel the request returned in place
\* of `self`.
GuildChannelMethod(fn, cache, lookup, refused, response, returned) ==
    LET check == checked(cache, lookup, required(fn))
        sent == check.ok /\ ~(delegates(fn) /\ refused)
    IN  /\ call' = [fn |-> fn, channel_id |-> this.id, user_id |-> 0,
                    cache |-> cache, current_user |-> 0, lookup |-> lookup,
                    limit |-> None]
        /\ rest' = IF sent
                   THEN << [fn |-> request_of(fn), channel_id |-> this.id,
                            message_id |-> 0, user_id |-> None, limit |-> 0] >>
                   ELSE <<>>
        /\ outcome' = IF ~check.ok THEN check
                      ELSE IF ~sent THEN Err(OtherError("Delegate"))
                      ELSE response
        /\ this' = IF sent /\ response.ok /\ fn = "GuildChannel::edit"
                   THEN returned ELSE this
        /\ UNCHANGED <<guild, trace, ret, workers>>

CheckedMethods ==
    { "GuildChannel::create_invite", "GuildChannel::delete",
      "GuildChannel::edit", "GuildChannel::send_message" }

\* One guild and a GuildChannel of it; no method called yet.
InitRest ==
    /\ id = 1
    /\ owner_id = 10
    /\ roles = (1 :> [permissions |-> {READ_MESSAGES, SEND_MESSAGES}])
    /\ members = (11 :> [roles |-> <<>>])
    /\ channels = << >>
    /\ call = NoCall
    /\ trace = Early("none", empty)
    /\ ret = empty
    /\ this \in GuildChannels
    /\ rest = <<>>
    /\ outcome = Ok("none")
    /\ InitWorkers

NextRest ==
    \/ \E reaction \in Reactions, cache \in BOOLEAN, current_user \in UserIds,
          lookup \in Lookups, response \in Responses :
           ReactionDelete(reaction, cache, current_user, lookup, response)
    \/ \E reaction \in Reactions, limit \in Limits,
          after \in {None} \cup { Some(u) : u \in UserIds },
          response \in Responses :
           ReactionUsers(reaction, limit, after, response)
    \/ \E fn \in CheckedMethods, cache \in BOOLEAN, lookup \in Lookups,
          refused \in BOOLEAN, response \in Responses,
          returned \in GuildChannels :
           GuildChannelMethod(fn, cache, lookup, refused, response, returned)

SpecRest == InitRest /\ [][NextRest]_vars

----------------------------------------------------------------------------
(* Guild::member_named (src/src/guild/mod.rs 217-245).  A string is a      *)
(* sequence of one-character strings.                                      *)

MaxNameLen == 3
Chars == {"z", "#", "5"}
Digits == {"0", "1", "2", "3", "4", "5", "6", "7", "8", "9"}
MaxU16 == 65535

Strings == UNION { [1..n -> Chars] : n \in 0..MaxNameLen }

\* The value of a decimal digit.
digit(c) ==
    CASE c = "0" -> 0 [] c = "1" -> 1 [] c = "2" -> 2 [] c = "3" -> 3
      [] c = "4" -> 4 [] c = "5" -> 5 [] c = "6" -> 6 [] c = "7" -> 7
      [] c = "8" -> 8 [] c = "9" -> 9

\* The decimal value of a string of digits.
RECURSIVE decimal(_)
decimal(s) ==
    IF s = <<>> THEN 0
    ELSE 10 * decimal(SubSeq(s, 1, Len(s) - 1)) + digit(s[Len(s)])

\* `name.find('#')`: the offset of the first '#', if there is one.
find(name, c) ==
    IF \E i \in 1..Len(name) : name[i] = c
    THEN Some((CHOOSE i \in 1..Len(name) :
                  /\ name[i] = c
                  /\ \A j \in 1..(i - 1) : name[j] # c) - 1)
    ELSE None

\* `name.split_at(pos)`: the first pos characters, and the rest from
\* offset pos on.
split_at(name, pos) ==
    << SubSeq(name, 1, pos), SubSeq(name, pos + 1, Len(name)) >>

\* `str::parse::<u16>()`: an optional '+', then one or more decimal digits
\* of a value that fits 16 bits.
parse_u16(s) ==
    LET digits == IF s # <<>> /\ s[1] = "+" THEN Tail(s) ELSE s
    IN  IF digits = <<>> THEN Err(OtherError("Empty"))
        ELSE IF \E i \in 1..Len(digits) : digits[i] \notin Digits
        THEN Err(OtherError("InvalidDigit"))
        ELSE IF decimal(digits) > MaxU16 THEN Err(OtherError("Overflow"))
        ELSE Ok(decimal(digits))

\* `let (name, discrim) = ...`: what the searches compare with.
member_named_key(name) ==
    LET pos == find(name, "#")
    IN  IF pos.some
        THEN LET split == split_at(name, pos.value)
                 parsed == parse_u16(split[2])
             IN  IF parsed.ok
                 THEN [name |-> split[1], discrim |-> Some(parsed.value)]
                 ELSE [name |-> name, discrim |-> None]
        ELSE [name |-> name, discrim |-> None]

\* The members the first `find` accepts.
username_matches(key) ==
    { u \in DOMAIN members :
        /\ members[u].user.name = key.name
        /\ IF key.discrim.some
           THEN members[u].user.discriminator = key.discrim.value
           ELSE TRUE }

\* The members the `find` of the `or_else` accepts.
nickname_matches(key) ==
    { u \in DOMAIN members :
        members[u].nick.some /\ members[u].nick.value = key.name }

\* Guild::member_named.  `values()` of a HashMap yields the members in no
\* fixed order, so `find` returns any of the members it accepts.
MemberNamed(name) ==
    LET key == member_named_key(name)
        found == IF username_matches(key) # {} THEN username_matches(key)
                 ELSE nickname_matches(key)
    IN  /\ call' = [fn |-> "member_named", name |-> name]
        /\ IF found = {} THEN ret' = None
           ELSE \E u \in found : ret' = Some(u)
        /\ UNCHANGED <<guild, trace, client, workers>>

UserNames == { <<"z">>, <<"z", "#", "5">> }
Discriminators == {5, 7}
Nicks == {None} \cup { Some(n) : n \in { <<"z">>, <<"z", "#", "5">> } }
NamedMembers ==
    [roles : { <<>> },
     user : [name : UserNames, discriminator : Discriminators],
     nick : Nicks]

\* A guild of one or two members with a username, a discriminator and
\* maybe a nickname; no call made yet.
InitNamed ==
    /\ id = 1
    /\ owner_id = 10
    /\ roles = (1 :> [permissions |-> {READ_MESSAGES, SEND_MESSAGES}])
    /\ members \in UNION { [D -> NamedMembers] : D \in {{10}, {10, 11}} }
    /\ channels = << >>
    /\ call = NoCall
    /\ trace = Early("none", empty)
    /\ ret = None
    /\ InitClient
    /\ InitWorkers

NextNamed == \E name \in Strings : MemberNamed(name)

SpecNamed == InitNamed /\ [][NextNamed]_vars

----------------------------------------------------------------------------
(* Threads that call member_permissions and permissions_in on one guild    *)
(* (`&self`), each step of a call taken on its own.  A thread makes one    *)
(* call; `overlapped` records that another thread was inside a call at one *)
(* of its steps.                                                           *)

\* frame with one `permissions` for all threads.
frame_shared(t) == 1

\* The stack frame of the call of thread t: `let mut permissions` is a
\* local of the call.
frame(t) == t

Running(t) == threads[t].pc \notin {"idle", "done"}

At(t, fn, pc) == threads[t].fn = fn /\ threads[t].pc = pc

Overlaps(t) ==
    threads[t].overlapped \/ \E s \in ThreadIds \ {t} : Running(s)

\* Thread t goes on to `pc` with `permissions` set to `permissions`.
Goto(t, pc, permissions) ==
    /\ threads' = [threads EXCEPT ![t].pc = pc,
                                  ![t].overlapped = Overlaps(t)]
    /\ frames' = [frames EXCEPT ![frame(t)] = permissions]
    /\ UNCHANGED <<guild, resolver, client>>

\* Thread t returns `result`.
Return(t, result) ==
    /\ threads' = [threads EXCEPT ![t].pc = "done", ![t].result = result,
                                  ![t].overlapped = Overlaps(t)]
    /\ UNCHANGED <<guild, resolver, client, frames>>

\* Thread t calls `fn`.
Begin(t, fn, channel_id, user_id) ==
    /\ threads[t].pc = "idle"
    /\ threads' = [threads EXCEPT ![t] =
                      [pc |-> "entry", fn |-> fn, channel_id |-> channel_id,
                       user_id |-> user_id, result |-> empty,
                       overlapped |-> Overlaps(t)]]
    /\ UNCHANGED <<guild, resolver, client, frames>>

\* The checks both functions start with, up to
\* `let mut permissions = everyone.permissions`.
Enter(t) ==
    /\ threads[t].pc = "entry"
    /\ IF is_owner(threads[t].user_id) THEN Return(t, all)
       ELSE IF ~has_everyone THEN Return(t, empty)
       ELSE IF threads[t].user_id \notin DOMAIN members
            THEN Return(t, roles[id].permissions)
       ELSE Goto(t, "roles", roles[id].permissions)

\* member_permissions: the loop over `member.roles` and the return.
MemberRoles(t) ==
    /\ At(t, "member_permissions", "roles")
    /\ Return(t, member_permissions_roles(members[threads[t].user_id].roles,
                     1, frames[frame(t)]))

\* permissions_in: the loop over `member.roles`.
UnionRoles(t) ==
    /\ At(t, "permissions_in", "roles")
    /\ Goto(t, "administrator",
            role_union(members[threads[t].user_id].roles, 1,
                frames[frame(t)]))

\* `if permissions.contains(ADMINISTRATOR) { return Permissions::all(); }`
CheckAdministrator(t) ==
    /\ At(t, "permissions_in", "administrator")
    /\ IF is_administrator(frames[frame(t)]) THEN Return(t, all)
       ELSE Goto(t, "channel", frames[frame(t)])

\* `self.channels.get(&channel_id)` and the voice flags of a text channel.
GetChannel(t) ==
    /\ At(t, "permissions_in", "channel")
    /\ IF threads[t].channel_id \in DOMAIN channels
       THEN Goto(t, "role_pass",
                clear_voice(channels[threads[t].channel_id],
                    frames[frame(t)]))
       ELSE Goto(t, "default", frames[frame(t)])

\* The first loop over the overwrites.
RolePass(t) ==
    /\ At(t, "permissions_in", "role_pass")
    /\ Goto(t, "member_pass",
            role_pass(channels[threads[t].channel_id].permission_overwrites,
                1, members[threads[t].user_id].roles, frames[frame(t)]))

\* The second loop over the overwrites.
MemberPass(t) ==
    /\ At(t, "permissions_in", "member_pass")
    /\ Goto(t, "default",
            member_pass(channels[threads[t].channel_id].permission_overwrites,
                1, threads[t].user_id, frames[frame(t)]))

\* The default channel, then the flags that need SEND_MESSAGES.
DefaultAndSend(t) ==
    /\ At(t, "permissions_in", "default")
    /\ Goto(t, "read",
            without_send(default_channel(threads[t].channel_id,
                frames[frame(t)])))

\* The flags that need READ_MESSAGES, and the return.
ReadAndReturn(t) ==
    /\ At(t, "permissions_in", "read")
    /\ Return(t, without_read(frames[frame(t)]))

\* The guilds the threads read.
InitConc ==
    /\ id = 1
    /\ owner_id \in UserIds
    /\ roles \in { (1 :> [permissions |-> {READ_MESSAGES, SEND_MESSAGES}]),
                   (1 :> [permissions |-> {READ_MESSAGES}])
                       @@ (2 :> [permissions |->
                                   {EMBED_LINKS, CONNECT, KICK_MEMBERS}]),
                   (1 :> [permissions |-> {READ_MESSAGES, SEND_MESSAGES}])
                       @@ (2 :> [permissions |-> {ADMINISTRATOR}]),
                   (2 :> [permissions |-> {READ_MESSAGES}]) }
    /\ members = (11 :> [roles |-> <<2>>])
    /\ channels \in
         { (2 :> [kind |-> Text, permission_overwrites |->
                    << Overwrite(Role(2), {EMBED_LINKS, CONNECT}, {}),
                       Overwrite(Member(11), {}, {SEND_MESSAGES}) >>]),
           (1 :> [kind |-> Voice, permission_overwrites |->
                    << Overwrite(Member(11), {}, {READ_MESSAGES}) >>]) }
    /\ call = NoCall
    /\ trace = Early("none", empty)
    /\ ret = empty
    /\ InitClient
    /\ InitWorkers

NextConc ==
    \E t \in ThreadIds :
        \/ \E fn \in {"member_permissions", "permissions_in"},
              channel_id \in ChannelIds, user_id \in UserIds :
               Begin(t, fn, channel_id, user_id)
        \/ Enter(t)
        \/ MemberRoles(t)
        \/ UnionRoles(t)
        \/ CheckAdministrator(t)
        \/ GetChannel(t)
        \/ RolePass(t)
        \/ MemberPass(t)
        \/ DefaultAndSend(t)
        \/ ReadAndReturn(t)

SpecConc == InitConc /\ [][NextConc]_vars

----------------------------------------------------------------------------
(* One call of member_permissions or permissions_in taken one loop         *)
(* iteration at a time.  threads[1] holds the position of the call and, as *)
(* history, how often it read each element of `member.roles` and of        *)
(* `channel.permission_overwrites`; frames[1] is its `permissions`.        *)

\* visit_role_pc for `self.roles[&role]`, which panics on a missing key.
visit_role_pc_unwrap(role) ==
    IF role \in DOMAIN roles THEN "roles" ELSE "panicked"

\* `if let Some(role) = self.roles.get(&role) { .. } else { warn!(..) }`:
\* the loop goes on whether the role is found or not.
visit_role_pc(role) == "roles"

\* How many elements `member.roles.contains(&role)` reads: up to the first
\* one that is equal, or all of them.
contains_reads(member_roles, role) ==
    IF \E k \in 1..Len(member_roles) : member_roles[k] = role
    THEN CHOOSE k \in 1..Len(member_roles) :
            /\ member_roles[k] = role
            /\ \A j \in 1..(k - 1) : member_roles[j] # role
    ELSE Len(member_roles)

\* The elements of `member.roles` the `continue` test of the role pass
\* reads for `overwrite`: none when `role.0 != self.id.0` is already false.
role_pass_reads(overwrite, member_roles) ==
    IF overwrite.kind.type = "Role" /\ overwrite.kind.id # id
    THEN contains_reads(member_roles, overwrite.kind.id)
    ELSE 0

Zeros(n) == [k \in 1..n |-> 0]

\* `counts` with one more read of the element at `k`.
Read(counts, k) == [counts EXCEPT ![k] = @ + 1]

\* `counts` with one more read of each of the first `n` elements.
ReadFirst(counts, n) ==
    [k \in DOMAIN counts |-> IF k <= n THEN counts[k] + 1 ELSE counts[k]]

NotCalled ==
    [pc |-> "idle", fn |-> "none", channel_id |-> 0, user_id |-> 0, i |-> 0,
     role_visits |-> <<>>, overwrite_visits |-> <<>>, result |-> empty]

LoopRoles == members[threads[1].user_id].roles
LoopOverwrites == channels[threads[1].channel_id].permission_overwrites

\* The call goes on at `pc` with loop index `i` and `permissions`.
LoopGoto(pc, i, permissions) ==
    /\ threads' = [threads EXCEPT ![1].pc = pc, ![1].i = i]
    /\ frames' = [frames EXCEPT ![1] = permissions]
    /\ UNCHANGED <<guild, resolver, client>>

\* The call returns `result`.
LoopReturn(result) ==
    /\ threads' = [threads EXCEPT ![1].pc = "done", ![1].result = result]
    /\ UNCHANGED <<guild, resolver, client, frames>>

\* `fn` is called.
StartCall(fn, channel_id, user_id) ==
    /\ threads[1].pc = "idle"
    /\ threads' = [threads EXCEPT ![1] =
          [NotCalled EXCEPT !.pc = "entry", !.fn = fn,
                            !.channel_id = channel_id, !.user_id = user_id]]
    /\ UNCHANGED <<guild, resolver, client, frames>>

\* The owner, the default role and the member, as both functions start.
Entry ==
    /\ threads[1].pc = "entry"
    /\ IF is_owner(threads[1].user_id) THEN LoopReturn(all)
       ELSE IF ~has_everyone THEN LoopReturn(empty)
       ELSE IF threads[1].user_id \notin DOMAIN members
            THEN LoopReturn(roles[id].permissions)
       ELSE /\ threads' = [threads EXCEPT
                  ![1].pc = "roles", ![1].i = 1,
                  ![1].role_visits = Zeros(Len(LoopRoles)),
                  ![1].overwrite_visits =
                      IF threads[1].fn = "permissions_in"
                         /\ threads[1].channel_id \in DOMAIN channels
                      THEN Zeros(Len(LoopOverwrites)) ELSE <<>>]
            /\ frames' = [frames EXCEPT ![1] = roles[id].permissions]
            /\ UNCHANGED <<guild, resolver, client>>

\* One iteration of the loop over `member.roles`.
VisitRole ==
    /\ threads[1].pc = "roles"
    /\ threads[1].i <= Len(LoopRoles)
    /\ LET role == LoopRoles[threads[1].i]
           found == role \in DOMAIN roles
           visited == [threads EXCEPT
                          ![1].role_visits = Read(@, threads[1].i)]
       IN  IF /\ threads[1].fn = "member_permissions"
              /\ found
              /\ is_administrator(roles[role].permissions)
           THEN /\ threads' = [visited EXCEPT ![1].pc = "done",
                                              ![1].result = all]
                /\ UNCHANGED frames
           ELSE /\ threads' = [visited EXCEPT ![1].pc = visit_role_pc(role),
                                              ![1].i = @ + 1]
                /\ frames' = [frames EXCEPT ![1] =
                      IF found THEN @ \cup roles[role].permissions ELSE @]
    /\ UNCHANGED <<guild, resolver, client>>

\* After the loop: member_permissions returns, permissions_in tests the
\* mask for ADMINISTRATOR.
AfterRoles ==
    /\ threads[1].pc = "roles"
    /\ threads[1].i > Len(LoopRoles)
    /\ IF threads[1].fn = "member_permissions" THEN LoopReturn(frames[1])
       ELSE IF is_administrator(frames[1]) THEN LoopReturn(all)
       ELSE LoopGoto("channel", 0, frames[1])

\* `self.channels.get(&channel_id)` and the voice flags of a text channel.
FindChannel ==
    /\ threads[1].pc = "channel"
    /\ IF threads[1].channel_id \in DOMAIN channels
       THEN LoopGoto("role_pass", 1,
                clear_voice(channels[threads[1].channel_id], frames[1]))
       ELSE LoopGoto("close", 0, frames[1])

\* One iteration of the first loop over the overwrites.
VisitRoleOverwrite ==
    /\ threads[1].pc = "role_pass"
    /\ threads[1].i <= Len(LoopOverwrites)
    /\ LET overwrite == LoopOverwrites[threads[1].i]
       IN  /\ threads' = [threads EXCEPT
                 ![1].i = @ + 1,
                 ![1].overwrite_visits = Read(@, threads[1].i),
                 ![1].role_visits =
                     ReadFirst(@, role_pass_reads(overwrite, LoopRoles))]
           /\ frames' = [frames EXCEPT ![1] =
                 IF role_overwrite_applies(overwrite, LoopRoles)
                 THEN apply_overwrite(@, overwrite) ELSE @]
    /\ UNCHANGED <<guild, resolver, client>>

AfterRolePass ==
    /\ threads[1].pc = "role_pass"
    /\ threads[1].i > Len(LoopOverwrites)
    /\ LoopGoto("member_pass", 1, frames[1])

\* One iteration of the second loop over the overwrites.
VisitMemberOverwrite ==
    /\ threads[1].pc = "member_pass"
    /\ threads[1].i <= Len(LoopOverwrites)
    /\ LET overwrite == LoopOverwrites[threads[1].i]
       IN  /\ threads' = [threads EXCEPT
                 ![1].i = @ + 1,
                 ![1].overwrite_visits = Read(@, threads[1].i)]
           /\ frames' = [frames EXCEPT ![1] =
                 IF member_overwrite_applies(overwrite, threads[1].user_id)
                 THEN apply_overwrite(@, overwrite) ELSE @]
    /\ UNCHANGED <<guild, resolver, client>>

AfterMemberPass ==
    /\ threads[1].pc = "member_pass"
    /\ threads[1].i > Len(LoopOverwrites)
    /\ LoopGoto("close", 0, frames[1])

\* The default channel, the two closing rules and the return.
CloseAndReturn ==
    /\ threads[1].pc = "close"
    /\ LoopReturn(without_read(without_send(
           default_channel(threads[1].channel_id, frames[1]))))

\* The guilds the stepped call reads: with and without the default role,
\* with a role id that is not in the role map, with and without a channel.
InitLoop ==
    /\ id = 1
    /\ owner_id \in UserIds
    /\ roles \in { (1 :> [permissions |-> {READ_MESSAGES, SEND_MESSAGES}]),
                   (1 :> [permissions |-> {READ_MESSAGES}])
                       @@ (2 :> [permissions |->
                                   {EMBED_LINKS, CONNECT, KICK_MEMBERS}]),
                   (1 :> [permissions |-> {READ_MESSAGES, SEND_MESSAGES}])
                       @@ (2 :> [permissions |-> {ADMINISTRATOR}]),
                   (2 :> [permissions |-> {READ_MESSAGES}]) }
    /\ members \in { (11 :> [roles |-> l]) :
                        l \in { <<>>, <<2>>, <<1, 2>>, <<2, 2>> } }
    /\ channels \in
         { << >>,
           (2 :> [kind |-> Text, permission_overwrites |->
                    << Overwrite(Role(2), {EMBED_LINKS, CONNECT}, {}),
                       Overwrite(Member(11), {}, {SEND_MESSAGES}) >>]),
           (1 :> [kind |-> Voice, permission_overwrites |->
                    << Overwrite(Role(1), {}, {READ_MESSAGES}),
                       Overwrite(Role(2), {SEND_MESSAGES}, {}),
                       Overwrite(Member(10), {ADMINISTRATOR}, {}) >>]) }
    /\ call = NoCall
    /\ trace = Early("none", empty)
    /\ ret = empty
    /\ InitClient
    /\ threads = << NotCalled >>
    /\ frames = << empty >>

\* The steps of a call that has been made.
StepLoop ==
    \/ Entry
    \/ VisitRole
    \/ AfterRoles
    \/ FindChannel
    \/ VisitRoleOverwrite
    \/ AfterRolePass
    \/ VisitMemberOverwrite
    \/ AfterMemberPass
    \/ CloseAndReturn

NextLoop ==
    \/ \E fn \in {"member_permissions", "permissions_in"},
          channel_id \in ChannelIds, user_id \in UserIds :
           StartCall(fn, channel_id, user_id)
    \/ StepLoop

\* The thread that made the call goes on running it.
SpecLoop == InitLoop /\ [][NextLoop]_vars /\ WF_vars(StepLoop)

----------------------------------------------------------------------------
(* What the claims are stated in.                                          *)

CalledMemberPermissions == call.fn = "member_permissions"
CalledPermissionsIn == call.fn = "permissions_in"
Called == CalledMemberPermissions \/ CalledPermissionsIn

IsOwner(u) == u = owner_id
EveryonePresent == id \in DOMAIN roles
IsMember(u) == u \in DOMAIN members
ChannelFound == call.channel_id \in DOMAIN channels
CalledChannel == channels[call.channel_id]
CalledOverwrites == CalledChannel.permission_overwrites

\* The roles of the role map that the member's role list names.
HeldRoles(u) ==
    { members[u].roles[i] : i \in 1..Len(members[u].roles) } \cap DOMAIN roles

\* The member's role list names a role that carries ADMINISTRATOR.
HoldsAdministratorRole(u) ==
    /\ IsMember(u)
    /\ \E r \in HeldRoles(u) : ADMINISTRATOR \in roles[r].permissions

\* The default role's mask united with the masks of the held roles.
BaseMask(u) ==
    roles[id].permissions \cup UNION { roles[r].permissions : r \in HeldRoles(u) }

\* Some role overwrite of the called channel denies F.
RoleOverwriteDenies(F) ==
    \E i \in 1..Len(CalledOverwrites) :
        /\ CalledOverwrites[i].kind.type = "Role"
        /\ F \in CalledOverwrites[i].deny

\* Some member overwrite of the called channel for user u allows F.
MemberOverwriteAllows(u, F) ==
    \E j \in 1..Len(CalledOverwrites) :
        /\ CalledOverwrites[j].kind = Member(u)
        /\ F \in CalledOverwrites[j].allow

\* ... and no later member overwrite for u denies F without allowing it.
MemberOverwriteAllowsLast(u, F) ==
    \E j \in 1..Len(CalledOverwrites) :
        /\ CalledOverwrites[j].kind = Member(u)
        /\ F \in CalledOverwrites[j].allow
        /\ \A k \in (j + 1)..Len(CalledOverwrites) :
               ( /\ CalledOverwrites[k].kind = Member(u)
                 /\ F \in CalledOverwrites[k].deny )
               => F \in CalledOverwrites[k].allow

\* Neither of the two closing rules of permissions_in throws F out.
NotThrownOut(F) ==
    /\ F \in MessageFlags => SEND_MESSAGES \in trace.defaulted
    /\ F \notin ReadlessFlags => READ_MESSAGES \in trace.sendless

----------------------------------------------------------------------------
(* The claims.                                                             *)

\* C1: for the owner of the guild, member_permissions and permissions_in
\* (for any channel id) return Permissions::all(), whatever the snapshot:
\* also without a default role, with the owner not in the member map and
\* with a channel id that is not in the channel map.
C1_OwnerHasAll ==
    (Called /\ IsOwner(call.user_id)) => ret = all

C1_Witness ==
    /\ CalledPermissionsIn
    /\ IsOwner(call.user_id)
    /\ ~EveryonePresent
    /\ ~IsMember(call.user_id)
    /\ ~ChannelFound
    /\ ret = all

\* C2 as stated: for every user whose role list names a role with the
\* ADMINISTRATOR flag, both functions return Permissions::all().
C2_Original ==
    (Called /\ HoldsAdministratorRole(call.user_id)) => ret = all

\* C2 as amended: for every user whose role list names a role with the
\* ADMINISTRATOR flag, both functions return Permissions::all(), provided
\* the default role is in the role map.
C2_AdministratorRoleHasAll ==
    (Called /\ HoldsAdministratorRole(call.user_id) /\ EveryonePresent)
        => ret = all

C2_Witness ==
    /\ CalledMemberPermissions
    /\ ~IsOwner(call.user_id)
    /\ EveryonePresent
    /\ HoldsAdministratorRole(call.user_id)
    /\ ADMINISTRATOR \notin roles[id].permissions
    /\ ret = all

\* C3 as stated: with a role overwrite denying F and a member overwrite for
\* the same user allowing F on the channel, the mask permissions_in returns
\* has F set, whichever comes first in the overwrite list.
C3_Original ==
    (CalledPermissionsIn /\ EveryonePresent /\ IsMember(call.user_id)
        /\ ChannelFound)
    => \A F \in all :
           (RoleOverwriteDenies(F) /\ MemberOverwriteAllows(call.user_id, F))
               => F \in ret

\* C3 as amended: for a member (default role present, channel in the
\* channel map), with a role overwrite denying F and a member overwrite for
\* the same user allowing F that no later member overwrite for that user
\* takes back, F is set after the two overwrite passes, whichever comes
\* first in the overwrite list, and F is set in the returned mask unless one
\* of the two closing rules throws it out (F is a message flag and
\* SEND_MESSAGES is not set, or READ_MESSAGES is not set and F is not one of
\* the flags kept without it).
C3_MemberOverwriteWins ==
    (CalledPermissionsIn /\ EveryonePresent /\ IsMember(call.user_id)
        /\ ChannelFound)
    => \A F \in all :
           ( /\ RoleOverwriteDenies(F)
             /\ MemberOverwriteAllowsLast(call.user_id, F) )
           => /\ F \in trace.member_passed
              /\ NotThrownOut(F) => F \in ret

C3_Witness ==
    /\ CalledPermissionsIn
    /\ trace.path = "channel"
    /\ Len(CalledOverwrites) = 2
    /\ CalledOverwrites[1].kind = Member(call.user_id)
    /\ role_overwrite_applies(CalledOverwrites[2], members[call.user_id].roles)
    /\ \E F \in CalledOverwrites[1].allow \cap CalledOverwrites[2].deny :
           /\ F \in trace.voiced
           /\ F \notin trace.role_passed
           /\ F \in ret

\* C4: for a text channel, the mask permissions_in returns for a member
\* who is neither the owner nor an administrator has none of the voice
\* flags, even if an overwrite of the channel allows one.
C4_TextChannelHasNoVoice ==
    (CalledPermissionsIn /\ trace.path = "channel"
        /\ CalledChannel.kind = Text)
    => ret \cap VoiceFlags = {}

C6_NoSendNoMessageFlags ==
    (CalledPermissionsIn /\ trace.path \in {"channel", "no_channel"}
        /\ SEND_MESSAGES \notin trace.defaulted)
    => ret \cap MessageFlags = {}

C6_Witness ==
    /\ CalledPermissionsIn
    /\ trace.path = "channel"
    /\ SEND_MESSAGES \notin trace.defaulted
    /\ READ_MESSAGES \in trace.defaulted
    /\ \E i \in 1..Len(CalledOverwrites) :
           /\ \/ member_overwrite_applies(CalledOverwrites[i], call.user_id)
              \/ role_overwrite_applies(CalledOverwrites[i],
                     members[call.user_id].roles)
           /\ CalledOverwrites[i].allow \cap MessageFlags # {}
    /\ trace.defaulted \cap MessageFlags # {}
    /\ ret \cap MessageFlags = {}

\* C7: without the default role in the role map, both functions return
\* Permissions::empty() for every user but the owner, whatever roles the
\* member holds and whatever overwrites and channel id are given.
C7_NoEveryoneIsEmpty ==
    (Called /\ ~EveryonePresent /\ ~IsOwner(call.user_id)) => ret = empty

C7_Witness ==
    /\ CalledPermissionsIn
    /\ ~EveryonePresent
    /\ ~IsOwner(call.user_id)
    /\ IsMember(call.user_id)
    /\ HeldRoles(call.user_id) # {}
    /\ call.channel_id = id
    /\ ChannelFound
    /\ Len(CalledOverwrites) > 0
    /\ ret = empty

\* C8: for a user who is neither the owner nor in the member map (default
\* role present), both functions return the default role's mask as it is,
\* for every channel id.
C8_NonMemberHasEveryone ==
    (Called /\ ~IsOwner(call.user_id) /\ EveryonePresent
        /\ ~IsMember(call.user_id))
    => ret = roles[id].permissions

C8_Witness ==
    /\ CalledPermissionsIn
    /\ trace.path = "no_member"
    /\ ChannelFound
    /\ CalledChannel.kind = Text
    /\ \E i \in 1..Len(CalledOverwrites) :
           /\ CalledOverwrites[i].kind = Member(call.user_id)
           /\ CalledOverwrites[i].deny # {}
    /\ ret \cap VoiceFlags # {}
    /\ ret \cap MessageFlags # {}
    /\ SEND_MESSAGES \notin ret
    /\ READ_MESSAGES \notin ret

\* C9: member_permissions returns Permissions::all() for a member who is
\* not the owner whenever ADMINISTRATOR is in the accumulated mask, also
\* when the flag comes from the default role's own mask.
C9_AdministratorMaskHasAll ==
    (CalledMemberPermissions /\ ~IsOwner(call.user_id) /\ EveryonePresent
        /\ IsMember(call.user_id)
        /\ ADMINISTRATOR \in BaseMask(call.user_id))
    => ret = all

\* C10: permissions_in returns Permissions::all() for a member who is not
\* the owner (default role present) whose base mask has ADMINISTRATOR, for
\* every channel id, channel kind and overwrite list.
C10_OverwritesSpareAdministrators ==
    (CalledPermissionsIn /\ ~IsOwner(call.user_id) /\ EveryonePresent
        /\ IsMember(call.user_id)
        /\ ADMINISTRATOR \in BaseMask(call.user_id))
    => ret = all

C10_Witness ==
    /\ CalledPermissionsIn
    /\ trace.path = "administrator"
    /\ ChannelFound
    /\ \E i \in 1..Len(CalledOverwrites) :
           /\ \/ member_overwrite_applies(CalledOverwrites[i], call.user_id)
              \/ role_overwrite_applies(CalledOverwrites[i],
                     members[call.user_id].roles)
           /\ CalledOverwrites[i].deny # {}
    /\ ret = all

----------------------------------------------------------------------------
(* Claims C11 to C16.                                                      *)

CalledRoles == members[call.user_id].roles

\* The overwrite is one the two passes apply for user u.
AppliesTo(overwrite, u) ==
    \/ /\ overwrite.kind.type = "Role"
       /\ \/ overwrite.kind.id = id
          \/ \E i \in 1..Len(members[u].roles) :
                 members[u].roles[i] = overwrite.kind.id
    \/ /\ overwrite.kind.type = "Member"
       /\ overwrite.kind.id = u

\* The i-th overwrite of the called channel is the last one the two passes
\* apply: the last member overwrite of the user or, without one, the last
\* applicable role overwrite.
LastApplied(i) ==
    LET u == call.user_id
        ows == CalledOverwrites
        n == Len(ows)
    IN  /\ i \in 1..n
        /\ AppliesTo(ows[i], u)
        /\ \A k \in 1..n :
               (k # i /\ AppliesTo(ows[k], u))
               => \/ ows[k].kind.type = "Role" /\ ows[i].kind.type = "Member"
                  \/ ows[k].kind.type = ows[i].kind.type /\ k < i

\* C11 as stated: when an applicable overwrite has a flag F in its allow
\* and in its deny mask, deny wins: F is cleared from the working mask
\* after that overwrite is applied.
C11_Original ==
    (CalledPermissionsIn /\ trace.path = "channel")
    => \A i \in 1..Len(CalledOverwrites) :
           LastApplied(i)
           => (CalledOverwrites[i].allow \cap CalledOverwrites[i].deny)
                  \cap trace.member_passed = {}

\* C11 as amended: when an applicable overwrite has a flag F in its allow
\* and in its deny mask, allow wins: F is set in the working mask after
\* that overwrite is applied.
C11_AllowWins ==
    (CalledPermissionsIn /\ trace.path = "channel")
    => \A i \in 1..Len(CalledOverwrites) :
           LastApplied(i)
           => (CalledOverwrites[i].allow \cap CalledOverwrites[i].deny)
                  \subseteq trace.member_passed

C11_Witness ==
    /\ CalledPermissionsIn
    /\ trace.path = "channel"
    /\ \E i \in 1..Len(CalledOverwrites) :
           /\ LastApplied(i)
           /\ CalledOverwrites[i].allow \cap CalledOverwrites[i].deny # {}
           /\ (CalledOverwrites[i].allow \cap CalledOverwrites[i].deny)
                  \subseteq ret

\* The member's role list without the ids that are not in the role map.
ExistingRoles(member_roles) ==
    SelectSeq(member_roles, LAMBDA r : r \in DOMAIN roles)

\* C12: a role id of the member without a Role in the role map contributes
\* nothing: both functions return what they return for the same snapshot
\* with those ids taken out of the member's role list.
C12_DanglingRolesContributeNothing ==
    (Called /\ ~IsOwner(call.user_id) /\ EveryonePresent
        /\ IsMember(call.user_id))
    => ret = IF CalledMemberPermissions
             THEN member_permissions_roles(ExistingRoles(CalledRoles), 1,
                      roles[id].permissions)
             ELSE permissions_in_member_trace(call.channel_id, call.user_id,
                      ExistingRoles(CalledRoles)).result

\* The mask the default-channel rule and the two closing rules make of p.
Closed(channel_id, p) ==
    LET d == IF channel_id = id THEN p \cup {READ_MESSAGES} ELSE p
        a == IF SEND_MESSAGES \in d THEN d ELSE d \ MessageFlags
    IN  IF READ_MESSAGES \in a THEN a ELSE a \cap ReadlessFlags

\* C13: with a channel id that is not in the channel map (a member who is
\* neither owner nor administrator, default role present) permissions_in
\* returns the base mask with only the default-channel rule and the two
\* closing rules applied: no overwrite, no clearing of voice flags.
C13_MissingChannelKeepsBase ==
    (CalledPermissionsIn /\ ~IsOwner(call.user_id) /\ EveryonePresent
        /\ IsMember(call.user_id)
        /\ ADMINISTRATOR \notin BaseMask(call.user_id)
        /\ ~ChannelFound)
    => ret = Closed(call.channel_id, BaseMask(call.user_id))

C13_Witness ==
    /\ CalledPermissionsIn
    /\ trace.path = "no_channel"
    /\ call.channel_id = id
    /\ channels # << >>
    /\ READ_MESSAGES \notin BaseMask(call.user_id)
    /\ BaseMask(call.user_id) \cap VoiceFlags # {}
    /\ ret \cap VoiceFlags # {}
    /\ READ_MESSAGES \in ret

\* C16: a call of member_permissions or permissions_in leaves the guild's
\* roles, members, channels and overwrite lists as they were, on every
\* return path.
C16_ResolversMutateNothing ==
    [][guild' = guild]_vars

C16_Witness ==
    /\ CalledPermissionsIn
    /\ trace.path = "channel"
    /\ Len(CalledOverwrites) >= 2
    /\ ret # trace.base

----------------------------------------------------------------------------
(* Claims C17 to C19, about the methods that check a permission before a   *)
(* REST request; stated over SpecRest.                                     *)

CalledReactionDelete == call.fn = "Reaction::delete"
CalledReactionUsers == call.fn = "Reaction::users"
CalledGuildChannel == call.fn \in CheckedMethods

\* The reaction was made by the current user.
OwnReaction == call.user_id = call.current_user

\* The lookup found the permission granted, found it missing, or failed.
LookupGrants == call.lookup.ok /\ call.lookup.value
LookupRefuses == call.lookup.ok /\ ~call.lookup.value
LookupFails == ~call.lookup.ok

Requested == rest # <<>>

\* C17 as stated: with the cache, Reaction::delete issues the request only
\* for an own reaction or when the current user has MANAGE_MESSAGES, and in
\* every other case returns Err(InvalidPermissions(MANAGE_MESSAGES)) with
\* no request.
C17_Original ==
    (CalledReactionDelete /\ call.cache)
    => /\ Requested => (OwnReaction \/ LookupGrants)
       /\ ~(OwnReaction \/ LookupGrants)
            => /\ ~Requested
               /\ ~outcome.ok
               /\ outcome.error = InvalidPermissions({MANAGE_MESSAGES})

\* C17: with the cache, Reaction::delete issues the request exactly when the
\* reaction is the current user's own, the lookup grants MANAGE_MESSAGES, or
\* the lookup fails; only for another user's reaction with a lookup that
\* finds the permission missing it returns
\* Err(InvalidPermissions(MANAGE_MESSAGES)) and issues no request.
C17_DeleteUnlessRefused ==
    (CalledReactionDelete /\ call.cache)
    => /\ Requested <=> (OwnReaction \/ LookupGrants \/ LookupFails)
       /\ ~Requested
            => /\ ~outcome.ok
               /\ outcome.error = InvalidPermissions({MANAGE_MESSAGES})
       /\ Requested
            => /\ rest[1].fn = "delete_reaction"
               /\ rest[1].channel_id = call.channel_id
               /\ rest[1].user_id =
                    IF OwnReaction THEN None ELSE Some(call.user_id)

C17_Witness ==
    /\ CalledReactionDelete
    /\ call.cache
    /\ ~OwnReaction
    /\ LookupFails
    /\ Requested
    /\ rest[1].user_id = Some(call.user_id)

\* C18: with the cache, create_invite, delete, edit and send_message of
\* GuildChannel return Err(InvalidPermissions(required)) when the current
\* user lacks CREATE_INVITE, MANAGE_CHANNELS, MANAGE_CHANNELS and
\* SEND_MESSAGES respectively, return the lookup's error when the lookup
\* fails, and issue no REST request in either case.
RequiredBy ==
    [fn \in CheckedMethods |->
        CASE fn = "GuildChannel::create_invite" -> {CREATE_INVITE}
          [] fn = "GuildChannel::send_message" -> {SEND_MESSAGES}
          [] OTHER -> {MANAGE_CHANNELS}]

C18_CheckedBeforeRequest ==
    (CalledGuildChannel /\ call.cache)
    => /\ LookupRefuses
            => /\ ~Requested
               /\ ~outcome.ok
               /\ outcome.error = InvalidPermissions(RequiredBy[call.fn])
       /\ LookupFails
            => /\ ~Requested
               /\ outcome = call.lookup

C18_Witness ==
    /\ CalledGuildChannel
    /\ call.fn = "GuildChannel::send_message"
    /\ call.cache
    /\ LookupFails
    /\ ~Requested
    /\ outcome = call.lookup

\* C19: Reaction::users passes a limit of 50 when none is given and never
\* one above 100: a given limit above 100 is passed as 100.
LimitCap == 100
C19_LimitAtMostCap ==
    CalledReactionUsers
    => /\ Requested
       /\ ~call.limit.some => rest[1].limit = DefaultLimit
       /\ rest[1].limit <= LimitCap
       /\ (call.limit.some /\ call.limit.value > LimitCap)
            => rest[1].limit = LimitCap

\* The half of C19 the code keeps: 50 when no limit is given, and a given
\* limit as it is.
C19_LimitAsGiven ==
    CalledReactionUsers
    => /\ Requested
       /\ rest[1].limit = IF call.limit.some THEN call.limit.value
                          ELSE DefaultLimit

----------------------------------------------------------------------------
(* Claim C20, about Guild::member_named; stated over SpecNamed.            *)

CalledMemberNamed == call.fn = "member_named"

\* Where the first '#' of the input is (0 when it has none).
HashAt(name) ==
    IF \E i \in 1..Len(name) : name[i] = "#"
    THEN CHOOSE i \in 1..Len(name) :
            name[i] = "#" /\ \A j \in 1..(i - 1) : name[j] # "#"
    ELSE 0

BeforeHash(name) == SubSeq(name, 1, HashAt(name) - 1)
AfterHash(name) == SubSeq(name, HashAt(name) + 1, Len(name))

\* The input has a '#' followed by a valid number.
HasDiscriminator(name) ==
    /\ HashAt(name) > 0
    /\ AfterHash(name) # <<>>
    /\ \A i \in 1..Len(AfterHash(name)) : AfterHash(name)[i] \in Digits
    /\ decimal(AfterHash(name)) <= MaxU16

\* The members the username search of the claim accepts.
ByUsername(name) ==
    IF HasDiscriminator(name)
    THEN { u \in DOMAIN members :
             /\ members[u].user.name = BeforeHash(name)
             /\ members[u].user.discriminator = decimal(AfterHash(name)) }
    ELSE { u \in DOMAIN members : members[u].user.name = name }

\* The members whose nickname is the whole input.
ByNickname(name) ==
    { u \in DOMAIN members :
        members[u].nick.some /\ members[u].nick.value = name }

\* C20: member_named(name) returns a member whose username is the name (and
\* whose discriminator is the number after '#', when the input has a '#'
\* followed by a valid number) if there is one; otherwise a member whose
\* nickname is the whole input; None only when neither search matches.
C20_NamedOrNicknamed ==
    CalledMemberNamed
    => IF ByUsername(call.name) # {}
       THEN ret.some /\ ret.value \in ByUsername(call.name)
       ELSE IF ByNickname(call.name) # {}
       THEN ret.some /\ ret.value \in ByNickname(call.name)
       ELSE ~ret.some

\* What the code does: the text from the '#' on never parses as a number,
\* so both searches compare the whole input.
C20_WholeInputCompared ==
    CalledMemberNamed
    => LET named == { u \in DOMAIN members :
                        members[u].user.name = call.name }
       IN  IF named # {} THEN ret.some /\ ret.value \in named
           ELSE IF ByNickname(call.name) # {}
           THEN ret.some /\ ret.value \in ByNickname(call.name)
           ELSE ~ret.some

----------------------------------------------------------------------------
(* Claim C15, about calls running in several threads; stated over SpecConc. *)

\* What the call of thread t returns when it runs alone.
Sequential(t) ==
    IF threads[t].fn = "permissions_in"
    THEN permissions_in(threads[t].channel_id, threads[t].user_id)
    ELSE member_permissions(threads[t].user_id)

\* C15: calls of member_permissions and permissions_in that run at the same
\* time on one guild that is not changed return, however their steps
\* interleave, the masks the same calls return when run one after another.
C15_InterleavedAsSequential ==
    \A t \in ThreadIds :
        threads[t].pc = "done" => threads[t].result = Sequential(t)

C15_Witness ==
    /\ \A t \in ThreadIds :
          /\ threads[t].pc = "done"
          /\ threads[t].overlapped
          /\ threads[t].user_id \in DOMAIN members
          /\ ~IsOwner(threads[t].user_id)
    /\ threads[1].fn = "permissions_in"
    /\ threads[1].channel_id \in DOMAIN channels
    /\ threads[2].fn = "member_permissions"
    /\ threads[1].result \notin {all, empty}
    /\ threads[1].result # threads[2].result

----------------------------------------------------------------------------
(* Claims C21 to C30.                                                      *)

\* The call went through the member's roles: a member who is not the
\* owner, in a guild with its default role.
MemberCall ==
    /\ ~IsOwner(call.user_id)
    /\ EveryonePresent
    /\ IsMember(call.user_id)

\* The call of permissions_in went past the administrator check.
PastAdministrator ==
    CalledPermissionsIn /\ trace.path \in {"channel", "no_channel"}

\* C21: for a member who is not the owner, with the default role present
\* and no held role carrying ADMINISTRATOR, member_permissions returns
\* exactly the union of the default role's mask and the masks of the roles
\* of the member's role list that are in the role map.
C21_UnionOfHeldRoles ==
    (CalledMemberPermissions /\ MemberCall
        /\ ~HoldsAdministratorRole(call.user_id))
    => ret = BaseMask(call.user_id)

C21_Witness ==
    /\ CalledMemberPermissions
    /\ MemberCall
    /\ ~HoldsAdministratorRole(call.user_id)
    /\ \E r \in HeldRoles(call.user_id) :
          /\ r # id
          /\ ~(roles[r].permissions \subseteq roles[id].permissions)
          /\ ~(roles[id].permissions \subseteq roles[r].permissions)
    /\ ret = BaseMask(call.user_id)

\* The sequence without its i-th element.
Without(seq, i) ==
    SubSeq(seq, 1, i - 1) \o SubSeq(seq, i + 1, Len(seq))

\* C22: an overwrite changes the working mask only if it targets the
\* default role, a role of the member's role list or the queried user:
\* without any other overwrite in the channel's list the returned mask is
\* the same.
C22_OtherOverwritesHaveNoEffect ==
    (CalledPermissionsIn /\ trace.path = "channel")
    => \A i \in 1..Len(CalledOverwrites) :
           ~AppliesTo(CalledOverwrites[i], call.user_id)
           => ret = Closed(call.channel_id,
                        overwrite_passes(Without(CalledOverwrites, i),
                            CalledRoles, call.user_id, trace.voiced))

C22_Witness ==
    /\ CalledPermissionsIn
    /\ trace.path = "channel"
    /\ \E i \in 1..Len(CalledOverwrites) :
          /\ ~AppliesTo(CalledOverwrites[i], call.user_id)
          /\ CalledOverwrites[i].kind.type = "Role"
          /\ CalledOverwrites[i].deny \cap trace.voiced # {}
          /\ CalledOverwrites[i].deny \subseteq ret
    /\ \E j \in 1..Len(CalledOverwrites) :
          /\ CalledOverwrites[j].kind.type = "Member"
          /\ CalledOverwrites[j].kind.id # call.user_id

\* The applicable role overwrites of the called channel that mention F.
RoleMentions(F) ==
    { i \in 1..Len(CalledOverwrites) :
        /\ CalledOverwrites[i].kind.type = "Role"
        /\ AppliesTo(CalledOverwrites[i], call.user_id)
        /\ F \in CalledOverwrites[i].allow \cup CalledOverwrites[i].deny }

\* The member overwrites of the called channel for the user that mention F.
MemberMentions(F) ==
    { i \in 1..Len(CalledOverwrites) :
        /\ CalledOverwrites[i].kind = Member(call.user_id)
        /\ F \in CalledOverwrites[i].allow \cup CalledOverwrites[i].deny }

Last(S) == CHOOSE i \in S : \A j \in S : j <= i

\* F after a pass: what the last overwrite of `mentions` makes of it, or
\* what it was before the pass when no overwrite mentions it.
DecidedByLast(F, mentions, before) ==
    IF mentions = {} THEN F \in before
    ELSE F \in CalledOverwrites[Last(mentions)].allow

\* C23: within each overwrite pass the applicable overwrites are applied in
\* list order as (mask & !deny) | allow, so the last applicable overwrite
\* that mentions a flag decides it (an earlier deny and a later allow of F
\* set F, the opposite order clears it), and a flag no applicable overwrite
\* mentions keeps its value from before the pass.
C23_LastOverwriteDecides ==
    (CalledPermissionsIn /\ trace.path = "channel")
    => \A F \in all :
          /\ F \in trace.role_passed
               <=> DecidedByLast(F, RoleMentions(F), trace.voiced)
          /\ F \in trace.member_passed
               <=> DecidedByLast(F, MemberMentions(F), trace.role_passed)

C23_Witness ==
    /\ CalledPermissionsIn
    /\ trace.path = "channel"
    /\ \E F \in all :
          \E i \in RoleMentions(F), j \in RoleMentions(F) :
              /\ i < j
              /\ F \in CalledOverwrites[i].deny
              /\ F \notin CalledOverwrites[i].allow
              /\ F \in CalledOverwrites[j].allow
              /\ F \in trace.voiced
              /\ F \in trace.role_passed

\* The opposite order: the earlier overwrite allows F, the later denies it.
C23_WitnessCleared ==
    /\ CalledPermissionsIn
    /\ trace.path = "channel"
    /\ \E F \in all :
          \E i \in RoleMentions(F), j \in RoleMentions(F) :
              /\ i < j
              /\ F \in CalledOverwrites[i].allow
              /\ F \in CalledOverwrites[j].deny
              /\ F \notin CalledOverwrites[j].allow
              /\ F \in trace.voiced
              /\ F \notin trace.role_passed

\* C24: the voice flags are cleared from the base mask if and only if the
\* channel is in the channel map and of kind Text, and before both
\* overwrite passes: in a text channel a voice flag is in the result only
\* if an applicable overwrite allows it, never from the role masks alone,
\* and for a channel of any other kind the base mask goes to the passes
\* with its voice flags.
C24_VoiceClearedOnTextOnly ==
    PastAdministrator
    => /\ trace.voiced =
            IF ChannelFound /\ CalledChannel.kind = Text
            THEN trace.base \ VoiceFlags
            ELSE trace.base
       /\ (ChannelFound /\ CalledChannel.kind = Text)
            => \A F \in VoiceFlags \cap ret :
                   \E i \in 1..Len(CalledOverwrites) :
                       /\ AppliesTo(CalledOverwrites[i], call.user_id)
                       /\ F \in CalledOverwrites[i].allow

C24_Witness ==
    /\ CalledPermissionsIn
    /\ trace.path = "channel"
    /\ CalledChannel.kind = Text
    /\ trace.base \cap VoiceFlags # {}
    /\ CalledOverwrites # <<>>
    /\ READ_MESSAGES \in ret
    /\ ret \cap VoiceFlags = {}

\* A channel of another kind: the voice flags of the base mask are kept.
C24_WitnessKept ==
    /\ CalledPermissionsIn
    /\ trace.path = "channel"
    /\ CalledChannel.kind # Text
    /\ trace.base \cap VoiceFlags # {}
    /\ trace.voiced = trace.base
    /\ ret \cap VoiceFlags # {}

\* The flags the claim lists for suppression rule B.
AccountFlags ==
    { KICK_MEMBERS, BAN_MEMBERS, ADMINISTRATOR, MANAGE_GUILD,
      CHANGE_NICKNAME, MANAGE_NICKNAMES }

\* C25: when READ_MESSAGES is not set after the overwrite passes, the
\* default-channel rule and suppression rule A, the returned mask is the
\* working mask intersected with KICK_MEMBERS, BAN_MEMBERS, ADMINISTRATOR,
\* MANAGE_GUILD, CHANGE_NICKNAME and MANAGE_NICKNAMES; every other flag is
\* cleared, also when an overwrite allows it.
C25_ReadlessKeepsAccountFlags ==
    (PastAdministrator /\ READ_MESSAGES \notin trace.sendless)
    => /\ ret = trace.sendless \cap AccountFlags
       /\ ret \subseteq AccountFlags

C25_Witness ==
    /\ CalledPermissionsIn
    /\ trace.path = "channel"
    /\ READ_MESSAGES \notin trace.sendless
    /\ \E F \in trace.sendless \ AccountFlags :
          /\ \E i \in 1..Len(CalledOverwrites) :
                /\ AppliesTo(CalledOverwrites[i], call.user_id)
                /\ F \in CalledOverwrites[i].allow
          /\ F \notin ret
    /\ ret # {}

\* Some overwrite the passes apply for the user allows F.
AppliedOverwriteAllows(F) ==
    /\ ChannelFound
    /\ \E i \in 1..Len(CalledOverwrites) :
          /\ AppliesTo(CalledOverwrites[i], call.user_id)
          /\ F \in CalledOverwrites[i].allow

\* C26 as stated: whenever permissions_in reaches suppression rule B the
\* working mask has no ADMINISTRATOR flag, and no mask returned past the
\* administrator check has it.
C26_Original ==
    PastAdministrator
    => /\ ADMINISTRATOR \notin trace.sendless
       /\ ADMINISTRATOR \notin ret

\* C26 as amended: the mask the overwrite passes start from never has the
\* ADMINISTRATOR flag; the working mask at suppression rule B and the mask
\* returned past the administrator check have it exactly when an overwrite
\* applied in the passes allows it and no later overwrite of the passes
\* takes it back, so only then does the rule's ADMINISTRATOR entry matter.
C26_AdministratorOnlyFromOverwrites ==
    PastAdministrator
    => /\ ADMINISTRATOR \notin trace.base
       /\ ADMINISTRATOR \notin trace.voiced
       /\ ADMINISTRATOR \in trace.sendless
            <=> ADMINISTRATOR \in trace.member_passed
       /\ ADMINISTRATOR \in ret <=> ADMINISTRATOR \in trace.member_passed
       /\ ADMINISTRATOR \in trace.member_passed
            => AppliedOverwriteAllows(ADMINISTRATOR)

C26_Witness ==
    /\ CalledPermissionsIn
    /\ trace.path = "channel"
    /\ READ_MESSAGES \notin trace.sendless
    /\ ADMINISTRATOR \in trace.sendless
    /\ ADMINISTRATOR \in ret
    /\ ret # all

\* C28: each flag of permissions_in(channel, user) is in
\* member_permissions(user), or in the allow mask of an overwrite of the
\* channel that applies to the user, or is READ_MESSAGES on the default
\* channel.
C28_ChannelWithinGuildPlusAllows ==
    CalledPermissionsIn
    => \A F \in ret :
          \/ F \in member_permissions(call.user_id)
          \/ IsMember(call.user_id) /\ AppliedOverwriteAllows(F)
          \/ F = READ_MESSAGES /\ call.channel_id = id

\* The same bound where the default role's own mask has no ADMINISTRATOR
\* flag: the case in which the two functions agree on the base mask.
C28_WithinUnlessDefaultAdministrator ==
    (CalledPermissionsIn
        /\ (EveryonePresent => ADMINISTRATOR \notin roles[id].permissions))
    => \A F \in ret :
          \/ F \in member_permissions(call.user_id)
          \/ IsMember(call.user_id) /\ AppliedOverwriteAllows(F)
          \/ F = READ_MESSAGES /\ call.channel_id = id

\* The two suppression invariants of a mask.
Suppressed(mask) ==
    /\ SEND_MESSAGES \notin mask
         => mask \cap { SEND_TTS_MESSAGES, MENTION_EVERYONE, EMBED_LINKS,
                        ATTACH_FILES } = {}
    /\ READ_MESSAGES \notin mask => mask \subseteq AccountFlags

\* C29 as stated: every mask permissions_in returns, on every return path,
\* other than the all() of the owner or an administrator satisfies both
\* suppression invariants.
C29_Original ==
    (CalledPermissionsIn /\ trace.path \notin {"owner", "administrator"})
    => Suppressed(ret)

\* C29 as amended: every mask permissions_in returns for a member (missing
\* channel or not) or for a guild without its default role satisfies both
\* suppression invariants; for a user who is not a member it returns the
\* default role's mask as it is, which need not satisfy them.
C29_SuppressedButForNonMembers ==
    CalledPermissionsIn
    => /\ trace.path \in {"no_everyone", "channel", "no_channel"}
            => Suppressed(ret)
       /\ trace.path = "no_member" => ret = roles[id].permissions

C29_Witness ==
    /\ CalledPermissionsIn
    /\ trace.path = "no_channel"
    /\ ~Suppressed(trace.base)
    /\ ret # {}
    /\ Suppressed(ret)

\* A user who is not a member gets a mask that breaks a suppression rule.
C29_WitnessNonMember ==
    /\ CalledPermissionsIn
    /\ trace.path = "no_member"
    /\ ~Suppressed(ret)

\* The ids a role list names.
Ids(member_roles) == { member_roles[i] : i \in 1..Len(member_roles) }

\* The role lists that name the ids of `member_roles`, in any order and
\* with any repetition, up to one element longer than the longest list of
\* a snapshot.
Rearranged(member_roles) ==
    { l \in SeqsUpTo(Ids(member_roles), MaxMemberRoles + 1) :
        Ids(l) = Ids(member_roles) }

\* C30: the results of member_permissions and permissions_in do not depend
\* on the order of the ids in the member's role list nor on repetitions in
\* it, also when a held role carries ADMINISTRATOR.
C30_RoleOrderIsIrrelevant ==
    (Called /\ MemberCall)
    => \A l \in Rearranged(CalledRoles) :
          ret = IF CalledMemberPermissions
                THEN member_permissions_roles(l, 1, roles[id].permissions)
                ELSE permissions_in_member_trace(call.channel_id,
                         call.user_id, l).result

C30_Witness ==
    /\ CalledPermissionsIn
    /\ MemberCall
    /\ trace.path = "channel"
    /\ Len(CalledRoles) = 2
    /\ CalledRoles[1] # CalledRoles[2]
    /\ Ids(CalledRoles) \subseteq DOMAIN roles
    /\ roles[CalledRoles[1]].permissions # roles[CalledRoles[2]].permissions
    /\ \E i \in 1..Len(CalledOverwrites) :
          /\ CalledOverwrites[i].kind.type = "Role"
          /\ CalledOverwrites[i].kind.id # id
          /\ AppliesTo(CalledOverwrites[i], call.user_id)

\* A held role with ADMINISTRATOR that is not the first of the list.
C30_WitnessAdministrator ==
    /\ CalledMemberPermissions
    /\ MemberCall
    /\ Len(CalledRoles) = 2
    /\ CalledRoles[2] \in DOMAIN roles
    /\ ADMINISTRATOR \in roles[CalledRoles[2]].permissions
    /\ CalledRoles[1] \in DOMAIN roles
    /\ ADMINISTRATOR \notin roles[CalledRoles[1]].permissions
    /\ ret = all

\* The order of the overwrite list can change the result: the called
\* channel's list in reverse order gives another mask.
C30_WitnessOverwriteOrder ==
    /\ CalledPermissionsIn
    /\ trace.path = "channel"
    /\ Len(CalledOverwrites) = 2
    /\ ret # Closed(call.channel_id,
                 overwrite_passes(
                     << CalledOverwrites[2], CalledOverwrites[1] >>,
                     CalledRoles, call.user_id, trace.voiced))

----------------------------------------------------------------------------
(* Claim C27, about the steps of one call; stated over SpecLoop.           *)

LoopCalled == threads[1].pc # "idle"
LoopDone == threads[1].pc = "done"

\* No element of `counts` was read more than n times.
VisitsWithin(counts, n) == \A k \in DOMAIN counts : counts[k] <= n

\* The role overwrites of the channel of the call that target another
\* role than the default role.
OtherRoleOverwrites ==
    IF threads[1].fn = "permissions_in"
       /\ threads[1].channel_id \in DOMAIN channels
    THEN { k \in 1..Len(LoopOverwrites) :
             /\ LoopOverwrites[k].kind.type = "Role"
             /\ LoopOverwrites[k].kind.id # id }
    ELSE {}

\* C27 as stated: every call comes to return a mask, and it reads each
\* role id of the member once and each overwrite of the channel at most
\* twice.
C27_Original ==
    LoopCalled
    ~> /\ LoopDone
       /\ threads[1].result \subseteq all
       /\ VisitsWithin(threads[1].role_visits, 1)
       /\ VisitsWithin(threads[1].overwrite_visits, 2)

\* C27 as amended: every call comes to return the mask of the function,
\* also without the default role, without the channel and with role ids
\* that are not in the role map; it reads each overwrite of the channel at
\* most twice, and each role id of the member once in the loop over the
\* role list and at most once more for every role overwrite of the channel
\* that targets another role than the default role.
C27_ReturnsWithinBounds ==
    LoopCalled
    ~> /\ LoopDone
       /\ threads[1].result = Sequential(1)
       /\ VisitsWithin(threads[1].role_visits,
              1 + Cardinality(OtherRoleOverwrites))
       /\ VisitsWithin(threads[1].overwrite_visits, 2)

C27_Witness ==
    /\ LoopDone
    /\ threads[1].fn = "permissions_in"
    /\ threads[1].user_id \in DOMAIN members
    /\ \E k \in 1..Len(LoopRoles) : LoopRoles[k] \notin DOMAIN roles
    /\ threads[1].channel_id \in DOMAIN channels
    /\ \E k \in DOMAIN threads[1].role_visits :
          threads[1].role_visits[k] = 2
    /\ \A k \in DOMAIN threads[1].overwrite_visits :
          threads[1].overwrite_visits[k] = 2
    /\ threads[1].result = Sequential(1)

====
